---- MODULE Spec2Model ----
(***************************************************************************)
(* Model of netlify/functions/api.ts: the process-wide ClientStore (a Map  *)
(* from client id to {name, downloadLink}) and the request handler that    *)
(* dispatches on HTTP method and path segments.                            *)
(*                                                                         *)
(* Strings are sequences of one-character strings, so that trim, split and *)
(* replace are computed as the code computes them.  A request body is the  *)
(* JSON text classified by what JSON.parse makes of it.                    *)
(***************************************************************************)
EXTENDS Integers, Sequences, FiniteSets, TLC

VARIABLES store, pc, req, resp, prev, ledger, deleted

vars == <<store, pc, req, resp, prev, ledger, deleted>>

\* Largest number of records the environment lets the registry grow to.
MaxClients == 2

(***************************************************************************)
(* Strings                                                                 *)
(***************************************************************************)
Whitespace == {" "}

Letters ==
    {"a", "b", "c", "d", "e", "f", "g", "h", "i", "j", "k", "l", "m",
     "n", "o", "p", "q", "r", "s", "t", "u", "v", "w", "x", "y", "z"}

RECURSIVE trimStart(_)
trimStart(s) ==
    IF s # <<>> /\ Head(s) \in Whitespace THEN trimStart(Tail(s)) ELSE s

RECURSIVE trimEnd(_)
trimEnd(s) ==
    IF s # <<>> /\ s[Len(s)] \in Whitespace
    THEN trimEnd(SubSeq(s, 1, Len(s) - 1))
    ELSE s

\* String.prototype.trim
trim(s) == trimEnd(trimStart(s))

\* Does pat occur in s at position i (1-based)?
occursAt(s, pat, i) ==
    /\ i + Len(pat) - 1 <= Len(s)
    /\ SubSeq(s, i, i + Len(pat) - 1) = pat

\* String.prototype.replace(pat, '') with a string pattern: the first
\* occurrence of pat is removed, the string is unchanged when there is none.
replaceFirst(s, pat) ==
    LET hits == {i \in 1..Len(s) : occursAt(s, pat, i)}
    IN  IF hits = {} THEN s
        ELSE LET i == CHOOSE j \in hits : \A k \in hits : j <= k
             IN  SubSeq(s, 1, i - 1) \o SubSeq(s, i + Len(pat), Len(s))

\* String.prototype.split('/'): always at least one segment.
RECURSIVE splitFrom(_, _, _)
splitFrom(s, i, cur) ==
    IF i > Len(s) THEN <<cur>>
    ELSE IF s[i] = "/" THEN <<cur>> \o splitFrom(s, i + 1, <<>>)
    ELSE splitFrom(s, i + 1, Append(cur, s[i]))

split(s) == splitFrom(s, 1, <<>>)

\* new URL(s) succeeds: s starts with a scheme, an ASCII letter followed by
\* letters, digits, "+", "-" or "." up to a ":".  The schemes of the model
\* are not special (not http, https, ftp, ws, wss, file), for which anything
\* may follow the colon.
schemeChar(c) == c \in Letters \cup {"+", "-", "."}

isURL(s) ==
    \E i \in 2..Len(s) :
        /\ s[i] = ":"
        /\ s[1] \in Letters
        /\ \A j \in 2..(i - 1) : schemeChar(s[j])

(***************************************************************************)
(* ClientStore: a Map, kept as the sequence of its entries in insertion    *)
(* order.                                                                  *)
(***************************************************************************)
Entry(id, data) == [id |-> id, data |-> data]

ClientData(name, link) == [name |-> name, downloadLink |-> link]

keysOf(m) == [i \in 1..Len(m) |-> m[i].id]

has(m, id) == \E i \in 1..Len(m) : m[i].id = id

indexOf(m, id) == CHOOSE i \in 1..Len(m) : m[i].id = id

\* Map.get: <<data>>, or <<>> for undefined.
get(m, id) == IF has(m, id) THEN <<m[indexOf(m, id)].data>> ELSE <<>>

\* A Map whose set re-inserts the key: an updated entry moves to the end.
setMovesToEnd(m, id, data) ==
    Append(SelectSeq(m, LAMBDA e : e.id # id), Entry(id, data))

\* Map.set: an existing key keeps its position, a new key goes last.
set(m, id, data) ==
    IF has(m, id)
    THEN [m EXCEPT ![indexOf(m, id)] = Entry(id, data)]
    ELSE Append(m, Entry(id, data))

\* A delete that removes nothing.
deleteKeepsEntry(m, id) == m

delete(m, id) == SelectSeq(m, LAMBDA e : e.id # id)

getAll(m) ==
    [i \in 1..Len(m) |->
        [id |-> m[i].id, name |-> m[i].data.name, downloadLink |-> m[i].data.downloadLink]]

(***************************************************************************)
(* Requests and responses                                                  *)
(***************************************************************************)
\* A field of the parsed body: undefined (absent), a string, or a JSON value
\* that is not a string (a number).
Absent == [t |-> "undefined", s |-> <<>>]

Num == [t |-> "number", s |-> <<>>]

Str(s) == [t |-> "string", s |-> s]

\* event.body: kind "empty" is a null or empty body, "malformed" is text
\* JSON.parse rejects, "null" and "number" are the JSON texts null and 5,
\* "object" is a JSON object with the two fields given.
Body(kind, name, link) == [kind |-> kind, name |-> name, downloadLink |-> link]

NameValues == {Absent, Num, Str(<<" ">>), Str(<<"a">>), Str(<<" ", "b", " ">>), Str(<<"a", "/", "b">>)}

LinkValues ==
    {Absent, Num, Str(<<" ">>), Str(<<"x", ":", "y">>), Str(<<" ", "x", ":", "z", " ">>),
     Str(<<"x", "y">>)}

Bodies ==
    {Body(k, Absent, Absent) : k \in {"empty", "malformed", "null", "number"}}
        \cup {Body("object", n, l) : n \in NameValues, l \in LinkValues}

Prefix ==
    <<"/", ".", "n", "e", "t", "l", "i", "f", "y", "/", "f", "u", "n", "c", "t", "i", "o",
      "n", "s", "/", "a", "p", "i", "/">>

clients == <<"c", "l", "i", "e", "n", "t", "s">>

Paths ==
    {Prefix \o clients,
     Prefix \o clients \o <<"/">>,
     Prefix \o clients \o <<"/", "a">>,
     Prefix \o clients \o <<"/", "b">>,
     Prefix \o clients \o <<"/", "a", "/", "b">>,
     Prefix \o <<"o", "t", "h", "e", "r", "/", "a">>,
     <<"/">> \o clients \o <<"/", "a">>}

BodyMethods == {"POST", "PUT"}

Methods == {"GET", "POST", "PUT", "DELETE", "OPTIONS", "PATCH"}

Event(m, p, b) == [httpMethod |-> m, path |-> p, body |-> b]

Events ==
    {Event(m, p, b) : m \in BodyMethods, p \in Paths, b \in Bodies}
        \cup {Event(m, p, Body("empty", Absent, Absent)) : m \in Methods \ BodyMethods, p \in Paths}

NoEvent == Event("", <<>>, Body("empty", Absent, Absent))

NoBody == [kind |-> "none", error |-> "", message |-> "", client |-> <<>>, list |-> <<>>]

ErrorBody(e) == [NoBody EXCEPT !.kind = "error", !.error = e]

ClientBody(data) == [NoBody EXCEPT !.kind = "client", !.client = <<data>>]

ListBody(l) == [NoBody EXCEPT !.kind = "list", !.list = l]

Response(status, body) == [statusCode |-> status, body |-> body]

NoResponse == Response(0, NoBody)

\* What one pass through the try block gives: a response and the store it
\* leaves, or a thrown exception.
Return(status, body, st) == [resp |-> Response(status, body), store |-> st, threw |-> FALSE]

Throw(st) == [resp |-> NoResponse, store |-> st, threw |-> TRUE]

\* JSON.parse(event.body || '{}'): <<value>>, or <<>> when it throws.
JSONparse(b) ==
    IF b.kind = "malformed" THEN <<>>
    ELSE IF b.kind = "empty" THEN <<Body("object", Absent, Absent)>>
    ELSE <<b>>

\* const { name, downloadLink } = body throws on null; a primitive has
\* neither property.
destructureThrows(v) == v.kind = "null"

property(v, f) == IF v.kind = "object" THEN v[f] ELSE Absent

\* x?.trim() throws when x is neither undefined nor a string.
optTrimThrows(x) == x.t \notin {"undefined", "string"}

\* !x?.trim()
blank(x) == x.t = "undefined" \/ trim(x.s) = <<>>

\* const segments = event.path.replace('/.netlify/functions/api/', '').split('/')
segmentsOf(ev) == split(replaceFirst(ev.path, Prefix))

\* segments[i] of the code (0-based), "" standing for undefined as well:
\* both are falsy and neither is a key nor 'clients'.
at(segments, i) == IF i + 1 <= Len(segments) THEN segments[i + 1] ELSE <<>>

segment(ev, i) == at(segmentsOf(ev), i)

(***************************************************************************)
(* The handler                                                             *)
(***************************************************************************)
\* GET /api/clients
listClients(st) == Return(200, ListBody(getAll(st)), st)

\* GET /api/clients/:clientId
getClient(st, id) ==
    IF get(st, id) = <<>>
    THEN Return(404, ErrorBody("Client not found"), st)
    ELSE Return(200, ClientBody(get(st, id)[1]), st)

\* The write of POST /api/clients, once every check has passed.
createWrite(st, trimmedName, trimmedLink) ==
    Return(201, ClientBody(ClientData(trimmedName, trimmedLink)),
           set(st, trimmedName, ClientData(trimmedName, trimmedLink)))

\* The create checks with the URL validated before the name collision.
createUrlFirst(st, trimmedName, trimmedLink) ==
    IF ~isURL(trimmedLink)
    THEN Return(400, ErrorBody("Invalid download link URL"), st)
    ELSE IF has(st, trimmedName)
    THEN Return(409, ErrorBody("Client with this name already exists"), st)
    ELSE createWrite(st, trimmedName, trimmedLink)

\* The create checks with the record written before the URL is validated.
createWritesFirst(st, trimmedName, trimmedLink) ==
    IF has(st, trimmedName)
    THEN Return(409, ErrorBody("Client with this name already exists"), st)
    ELSE IF ~isURL(trimmedLink)
    THEN Return(400, ErrorBody("Invalid download link URL"),
                set(st, trimmedName, ClientData(trimmedName, trimmedLink)))
    ELSE createWrite(st, trimmedName, trimmedLink)

\* POST /api/clients, from the name-collision check on.
createChecked(st, trimmedName, trimmedLink) ==
    IF has(st, trimmedName)
    THEN Return(409, ErrorBody("Client with this name already exists"), st)
    ELSE IF ~isURL(trimmedLink)
    THEN Return(400, ErrorBody("Invalid download link URL"), st)
    ELSE createWrite(st, trimmedName, trimmedLink)

\* An update that stores the record under its new name.
updateRekeys(st, id, trimmedName, trimmedLink) ==
    Return(200, ClientBody(ClientData(trimmedName, trimmedLink)),
           set(delete(st, id), trimmedName, ClientData(trimmedName, trimmedLink)))

\* The write of PUT /api/clients/:clientId, once every check has passed.
updateWrite(st, id, trimmedName, trimmedLink) ==
    Return(200, ClientBody(ClientData(trimmedName, trimmedLink)),
           set(st, id, ClientData(trimmedName, trimmedLink)))

\* The update checks with the URL validated before the key is looked up.
updateUrlFirst(st, id, trimmedName, trimmedLink) ==
    IF ~isURL(trimmedLink)
    THEN Return(400, ErrorBody("Invalid download link URL"), st)
    ELSE IF ~has(st, id)
    THEN Return(404, ErrorBody("Client not found"), st)
    ELSE updateWrite(st, id, trimmedName, trimmedLink)

\* PUT /api/clients/:clientId, from the existence check on.
updateChecked(st, id, trimmedName, trimmedLink) ==
    IF ~has(st, id)
    THEN Return(404, ErrorBody("Client not found"), st)
    ELSE IF ~isURL(trimmedLink)
    THEN Return(400, ErrorBody("Invalid download link URL"), st)
    ELSE updateWrite(st, id, trimmedName, trimmedLink)

\* The body parse and the field check POST and PUT share:
\* "invalid", "throws", "required" or "ok".
fieldCheck(body) ==
    IF JSONparse(body) = <<>> THEN "invalid"
    ELSE IF destructureThrows(JSONparse(body)[1]) THEN "throws"
    ELSE IF optTrimThrows(property(JSONparse(body)[1], "name")) THEN "throws"
    ELSE IF blank(property(JSONparse(body)[1], "name")) THEN "required"
    ELSE IF optTrimThrows(property(JSONparse(body)[1], "downloadLink")) THEN "throws"
    ELSE IF blank(property(JSONparse(body)[1], "downloadLink")) THEN "required"
    ELSE "ok"

\* name.trim() and downloadLink.trim() of a body that passed the field check.
trimmedNameOf(body) == trim(property(JSONparse(body)[1], "name").s)

trimmedLinkOf(body) == trim(property(JSONparse(body)[1], "downloadLink").s)

rejected(st, check) ==
    IF check = "invalid" THEN Return(400, ErrorBody("Invalid request body"), st)
    ELSE IF check = "required"
    THEN Return(400, ErrorBody("Name and download link are required"), st)
    ELSE Throw(st)

\* POST /api/clients
createClient(st, body) ==
    IF fieldCheck(body) # "ok" THEN rejected(st, fieldCheck(body))
    ELSE createChecked(st, trimmedNameOf(body), trimmedLinkOf(body))

\* PUT /api/clients/:clientId
updateClient(st, id, body) ==
    IF fieldCheck(body) # "ok" THEN rejected(st, fieldCheck(body))
    ELSE updateChecked(st, id, trimmedNameOf(body), trimmedLinkOf(body))

\* DELETE /api/clients/:clientId
deleteClient(st, id) ==
    IF ~has(st, id)
    THEN Return(404, ErrorBody("Client not found"), st)
    ELSE Return(204, NoBody, delete(st, id))

endpointNotFound(st) == Return(404, ErrorBody("Endpoint not found"), st)

\* The branch of the handler taken for a method and the path's segments.
branch(method, segments) ==
    IF method = "OPTIONS" THEN "options"
    ELSE IF method = "GET" /\ at(segments, 0) = clients /\ at(segments, 1) = <<>> THEN "list"
    ELSE IF method = "GET" /\ at(segments, 0) = clients /\ at(segments, 1) # <<>> THEN "get"
    ELSE IF method = "POST" /\ at(segments, 0) = clients THEN "create"
    ELSE IF method = "PUT" /\ at(segments, 0) = clients /\ at(segments, 1) # <<>> THEN "update"
    ELSE IF method = "DELETE" /\ at(segments, 0) = clients /\ at(segments, 1) # <<>>
    THEN "delete"
    ELSE "none"

route(ev) == branch(ev.httpMethod, segmentsOf(ev))

tryBlock(st, br, id, body) ==
    CASE br = "list" -> listClients(st)
      [] br = "get" -> getClient(st, id)
      [] br = "create" -> createClient(st, body)
      [] br = "update" -> updateClient(st, id, body)
      [] br = "delete" -> deleteClient(st, id)
      [] OTHER -> endpointNotFound(st)

\* catch (error): anything thrown in the try block becomes a 500.
catch(r) ==
    IF r.threw
    THEN Return(500, [ErrorBody("Internal server error") EXCEPT !.message = "TypeError"],
                r.store)
    ELSE r

\* The whole handler: the preflight answer, then the try block under the catch.
handler(st, ev) ==
    IF ev.httpMethod = "OPTIONS" THEN Return(204, NoBody, st)
    ELSE catch(tryBlock(st, route(ev), segment(ev, 1), ev.body))

(***************************************************************************)
(* History kept beside the program: what the answered requests say the     *)
(* registry should hold.                                                   *)
(***************************************************************************)
\* The name and link a request body carries, trimmed.
sentName(ev) == trim(ev.body.name.s)

sentLink(ev) == trim(ev.body.downloadLink.s)

ledgerAfter(l, ev, r) ==
    IF ev.httpMethod = "POST" /\ r.statusCode = 201
    THEN Append(l, [id |-> sentName(ev), name |-> sentName(ev), downloadLink |-> sentLink(ev)])
    ELSE IF ev.httpMethod = "PUT" /\ r.statusCode = 200
    THEN [i \in 1..Len(l) |->
            IF l[i].id = segment(ev, 1)
            THEN [id |-> l[i].id, name |-> sentName(ev), downloadLink |-> sentLink(ev)]
            ELSE l[i]]
    ELSE IF ev.httpMethod = "DELETE" /\ r.statusCode = 204
    THEN SelectSeq(l, LAMBDA e : e.id # segment(ev, 1))
    ELSE l

deletedAfter(d, ev, r) ==
    IF ev.httpMethod = "DELETE" /\ r.statusCode = 204 THEN d \cup {segment(ev, 1)}
    ELSE IF ev.httpMethod = "POST" /\ r.statusCode = 201 THEN d \ {sentName(ev)}
    ELSE d

(***************************************************************************)
(* The state machine: the module-level store outlives the invocations; an  *)
(* invocation runs the handler to completion on one event and returns.     *)
(***************************************************************************)
Init ==
    /\ store = <<>>
    /\ pc = "idle"
    /\ req = NoEvent
    /\ resp = NoResponse
    /\ prev = <<>>
    /\ ledger = <<>>
    /\ deleted = {}

\* One invocation: the handler runs to completion on ev.
Invoke(ev) ==
    \E r \in {handler(store, ev)} :
        /\ Len(r.store) <= MaxClients
        /\ store' = r.store
        /\ resp' = r.resp
        /\ req' = ev
        /\ prev' = store
        /\ ledger' = ledgerAfter(ledger, ev, r.resp)
        /\ deleted' = deletedAfter(deleted, ev, r.resp)
        /\ pc' = "responded"

\* The events of the model by the branch they take.
Routes == {"options", "list", "get", "create", "update", "delete", "none"}

routed == [r \in Routes |-> {ev \in Events : route(ev) = r}]

Options ==
    /\ pc = "idle"
    /\ \E ev \in routed["options"] : Invoke(ev)

ListClients ==
    /\ pc = "idle"
    /\ \E ev \in routed["list"] : Invoke(ev)

GetClient ==
    /\ pc = "idle"
    /\ \E ev \in routed["get"] : Invoke(ev)

CreateClient ==
    /\ pc = "idle"
    /\ \E ev \in routed["create"] : Invoke(ev)

UpdateClient ==
    /\ pc = "idle"
    /\ \E ev \in routed["update"] : Invoke(ev)

DeleteClient ==
    /\ pc = "idle"
    /\ \E ev \in routed["delete"] : Invoke(ev)

EndpointNotFound ==
    /\ pc = "idle"
    /\ \E ev \in routed["none"] : Invoke(ev)

\* The invocation is over: its event and response are gone, the store stays.
Finish ==
    /\ pc = "responded"
    /\ pc' = "idle"
    /\ req' = NoEvent
    /\ resp' = NoResponse
    /\ prev' = store
    /\ UNCHANGED <<store, ledger, deleted>>

Next ==
    \/ Options
    \/ ListClients
    \/ GetClient
    \/ CreateClient
    \/ UpdateClient
    \/ DeleteClient
    \/ EndpointNotFound
    \/ Finish

Spec == Init /\ [][Next]_vars

(***************************************************************************)
(* Properties                                                              *)
(***************************************************************************)
EmptyBody == Body("empty", Absent, Absent)

\* The path /clients/{id} behind the routing prefix.
clientPath(id) == Prefix \o clients \o <<"/">> \o id

ListPath == Prefix \o clients

Responded == pc = "responded"

\* The request was POST /clients (no id segment).
IsCreate(ev) ==
    ev.httpMethod = "POST" /\ segment(ev, 0) = clients /\ segment(ev, 1) = <<>>

\* The request was PUT /clients/{id}.
IsUpdate(ev) ==
    ev.httpMethod = "PUT" /\ segment(ev, 0) = clients /\ segment(ev, 1) # <<>>

IsDelete(ev) ==
    ev.httpMethod = "DELETE" /\ segment(ev, 0) = clients /\ segment(ev, 1) # <<>>

\* The body is unparsable, or a JSON object whose name and downloadLink are
\* strings or absent.
PlainBody(b) ==
    \/ b.kind \in {"malformed", "empty"}
    \/ b.kind = "object" /\ b.name.t \in {"undefined", "string"}
                         /\ b.downloadLink.t \in {"undefined", "string"}

\* A field that is a string with something left after trimming.
Supplied(x) == x.t = "string" /\ trim(x.s) # <<>>

SuppliesBoth(b) == b.kind = "object" /\ Supplied(b.name) /\ Supplied(b.downloadLink)

IdsOf(l) == [i \in 1..Len(l) |-> l[i].id]

Answer(status, error) == Response(status, ErrorBody(error))

Sent(ev) == ClientData(sentName(ev), sentLink(ev))

\* C1: every record is stored under the key it was created with; a
\* successful update changes only the name and downloadLink of the record at
\* its key, adds, removes and renames no key, and a GET on that key then
\* returns 200 with the new values.
KeysAreCreationNames ==
    /\ keysOf(store) = IdsOf(ledger)
    /\ Responded /\ IsUpdate(req) /\ resp.statusCode = 200 =>
        /\ keysOf(store) = keysOf(prev)
        /\ \A i \in 1..Len(store) :
            IF store[i].id = segment(req, 1)
            THEN store[i].data = Sent(req)
            ELSE store[i] = prev[i]
        /\ handler(store, Event("GET", req.path, EmptyBody)).resp
              = Response(200, ClientBody(Sent(req)))

\* A record was renamed by an update while another record was in the store.
RenamedWitness ==
    /\ Responded /\ IsUpdate(req) /\ resp.statusCode = 200
    /\ sentName(req) # segment(req, 1)
    /\ Len(store) = 2

\* What the create checks, taken in order, answer for a plain body.
CreateVerdict(st, b) ==
    IF b.kind = "malformed" THEN Answer(400, "Invalid request body")
    ELSE IF ~SuppliesBoth(b) THEN Answer(400, "Name and download link are required")
    ELSE IF \E i \in 1..Len(st) : st[i].id = trim(b.name.s)
    THEN Answer(409, "Client with this name already exists")
    ELSE IF ~isURL(trim(b.downloadLink.s)) THEN Answer(400, "Invalid download link URL")
    ELSE Response(201, ClientBody(ClientData(trim(b.name.s), trim(b.downloadLink.s))))

\* C2: a create request with a plain body is answered by the first failing
\* check in the order body-parse (400), field presence (400), name collision
\* (409), URL validity (400); the record is written and 201 returned only
\* when all four pass.
CreateOrder ==
    Responded /\ IsCreate(req) /\ PlainBody(req.body) =>
        /\ resp = CreateVerdict(prev, req.body)
        /\ store = IF resp.statusCode = 201
                   THEN Append(prev, Entry(sentName(req), Sent(req)))
                   ELSE prev

\* A create with an existing key and an invalid URL was answered 409.
CreateOrderWitness ==
    /\ Responded /\ IsCreate(req) /\ resp.statusCode = 409
    /\ SuppliesBoth(req.body) /\ ~isURL(sentLink(req))

\* What the update checks, taken in order, answer for a plain body.
UpdateVerdict(st, id, b) ==
    IF b.kind = "malformed" THEN Answer(400, "Invalid request body")
    ELSE IF ~SuppliesBoth(b) THEN Answer(400, "Name and download link are required")
    ELSE IF ~\E i \in 1..Len(st) : st[i].id = id THEN Answer(404, "Client not found")
    ELSE IF ~isURL(trim(b.downloadLink.s)) THEN Answer(400, "Invalid download link URL")
    ELSE Response(200, ClientBody(ClientData(trim(b.name.s), trim(b.downloadLink.s))))

\* C3: an update request with a plain body is answered by the first failing
\* check in the order body-parse (400), field presence (400), key exists
\* (404), URL validity (400); the record is overwritten and 200 returned only
\* when all four pass, and a 404 leaves the registry unchanged.
UpdateOrder ==
    Responded /\ IsUpdate(req) /\ PlainBody(req.body) =>
        /\ resp = UpdateVerdict(prev, segment(req, 1), req.body)
        /\ store = IF resp.statusCode = 200
                   THEN [i \in 1..Len(prev) |->
                          IF prev[i].id = segment(req, 1)
                          THEN Entry(prev[i].id, Sent(req))
                          ELSE prev[i]]
                   ELSE prev

\* An update of a key that does not exist, with an invalid URL, was answered
\* 404 while the registry held a record.
UpdateOrderWitness ==
    /\ Responded /\ IsUpdate(req) /\ resp.statusCode = 404
    /\ SuppliesBoth(req.body) /\ ~isURL(sentLink(req))
    /\ store # <<>>

\* C4: the registry changes only on a successful mutation: a request
\* answered 400, 404, 409 or 500, a GET and an OPTIONS leave it as it was.
FailuresChangeNothing ==
    Responded /\ (resp.statusCode \in {400, 404, 409, 500}
                    \/ req.httpMethod \in {"GET", "OPTIONS"})
        => store = prev

\* A create with a link that is not a URL was answered 400 and its name is
\* no key of the registry, which holds another record.
FailuresChangeNothingWitness ==
    /\ Responded /\ IsCreate(req)
    /\ resp = Answer(400, "Invalid download link URL")
    /\ ~has(store, sentName(req))
    /\ store # <<>>

\* C5: a create answered 201 followed by GET /clients/{trimmed name} returns
\* 200 with the trimmed name and the trimmed downloadLink that were sent.
CreateThenGet ==
    Responded /\ IsCreate(req) /\ resp.statusCode = 201 =>
        handler(store, Event("GET", clientPath(sentName(req)), EmptyBody)).resp
            = Response(200, ClientBody(Sent(req)))

\* C6: a create whose trimmed name is the name of a record in the registry
\* is answered 409, and no two records of the registry have the same name.
NamesUnique ==
    /\ Responded /\ IsCreate(req) /\ SuppliesBoth(req.body)
         /\ (\E i \in 1..Len(prev) : prev[i].data.name = sentName(req))
        => resp = Answer(409, "Client with this name already exists")
    /\ \A i, j \in 1..Len(store) : store[i].data.name = store[j].data.name => i = j

ValidBody == Body("object", Str(<<"a">>), Str(<<"x", ":", "y">>))

\* C7: a DELETE on an existing key is answered 204 and removes that key
\* only; until a create stores the key again, GET, PUT with a valid body and
\* DELETE on it are answered 404 "Client not found".
DeletedStaysGone ==
    /\ Responded /\ IsDelete(req) =>
        IF \E i \in 1..Len(prev) : prev[i].id = segment(req, 1)
        THEN /\ resp = Response(204, NoBody)
             /\ Len(store) = Len(prev) - 1
             /\ \A i \in 1..Len(prev) :
                  prev[i].id # segment(req, 1) => \E j \in 1..Len(store) : store[j] = prev[i]
             /\ \A j \in 1..Len(store) : store[j].id # segment(req, 1)
        ELSE resp = Answer(404, "Client not found") /\ store = prev
    /\ \A id \in deleted :
        \A m \in {"GET", "PUT", "DELETE"} :
            /\ handler(store, Event(m, clientPath(id), ValidBody)).resp
                 = Answer(404, "Client not found")
            /\ handler(store, Event(m, clientPath(id), ValidBody)).store = store

\* A key was deleted a second time, answered 404, while another record was
\* in the registry.
DeletedTwiceWitness ==
    /\ Responded /\ IsDelete(req) /\ resp.statusCode = 404
    /\ segment(req, 1) \in deleted
    /\ store # <<>>

\* C8: GET /clients returns 200 with one {id, name, downloadLink} entry per
\* record of the registry, carrying the values of the latest successful
\* create or update of its key, in the order the keys were inserted.
ListIsLedger ==
    /\ handler(store, Event("GET", ListPath, EmptyBody)).resp = Response(200, ListBody(ledger))
    /\ Responded /\ req.httpMethod = "GET" /\ segment(req, 0) = clients
         /\ segment(req, 1) = <<>>
        => resp = Response(200, ListBody(ledger))

\* The list was returned with two entries, the first of them renamed by an
\* update, after some key had been deleted.
ListWitness ==
    /\ Responded /\ route(req) = "list"
    /\ Len(resp.body.list) = 2
    /\ resp.body.list[1].name # resp.body.list[1].id
    /\ deleted # {}

\* The method and path are one of OPTIONS *, GET /clients, GET /clients/{id},
\* POST /clients, PUT /clients/{id}, DELETE /clients/{id}.
Matches(ev) ==
    \/ ev.httpMethod = "OPTIONS"
    \/ ev.httpMethod = "GET" /\ segment(ev, 0) = clients
    \/ IsCreate(ev)
    \/ IsUpdate(ev)
    \/ IsDelete(ev)

\* C9: a request whose method and path are none of the six is answered 404
\* "Endpoint not found" and the registry is not touched.
UnmatchedIsNotFound ==
    Responded /\ ~Matches(req) =>
        resp = Answer(404, "Endpoint not found") /\ store = prev

\* C10: for a create or update, a body that does not parse is answered 400
\* "Invalid request body", and a body that parses but does not supply both
\* fields as non-blank strings is answered 400 "Name and download link are
\* required"; never 500.
BadInputIs400 ==
    Responded /\ (IsCreate(req) \/ IsUpdate(req)) =>
        /\ resp.statusCode # 500
        /\ req.body.kind = "malformed" => resp = Answer(400, "Invalid request body")
        /\ req.body.kind # "malformed" /\ ~SuppliesBoth(req.body)
             => resp = Answer(400, "Name and download link are required")

====
